---- MODULE Spec2Model ----
(***************************************************************************)
(* cbzlint: the bedetheque client (src/src/bedetheque.rs) and the CBZ      *)
(* checks (src/src/cbz.rs) as state machines.                              *)
(*                                                                         *)
(* Strings are sequences of one-character strings.  Option<T> is <<>> for  *)
(* None and <<x>> for Some(x).  Result<T> is [tag |-> "Ok"/"Err", val].    *)
(***************************************************************************)
EXTENDS Integers, Sequences, FiniteSets, TLC

VARIABLES
    \* ---- bedetheque::Client and the find_book call in progress
    cache,      \* Client.cache : HashMap<Volume, Url>, keys <<title, volume>>
    pc,         \* position of the caller inside find_book
    title,      \* find_book's `title` argument
    volume,     \* find_book's `volume` argument
    csrf_token, \* find_book's local `csrf_token`
    res,        \* find_book's local `res`, its return value once pc = "done"
    net,        \* what get_html did during the current call, in order
    cache0,     \* the cache as it was when the current call started
    searches,   \* one record per get_link call of the current find_book call
    home,       \* what the home page fetch of the current call answered
    ncalls,     \* number of client calls started so far
    \* ---- cbz::Book and the check call in progress
    book,       \* the Book: url, authors, year, width
    build,      \* "debug" (overflow checks on) or "release" (off)
    bpc,        \* position of the caller inside Book::check
    cbz_len,    \* cbz.len(), once the archive is open
    entries,    \* the entries by_index gave so far, in order; the loop's i is
                \* Len(entries)
    errors,     \* check's local `errors`
    inspected,  \* what was done to which entry, in order: <<index, operation>>
    bres,       \* check's return value once bpc = "done"
    vinfo,      \* what fetch_info gave check_book_metadata, None before
    \* ---- main and the run in progress
    argv,       \* the files the run is given, in order
    collected,  \* how many of them get_books has gone through
    books,      \* main's `books`: the Book of each file that has one
    checked,    \* how many of `books` the loop has checked
    stdout,     \* the lines printed about the files, in order
    mpc,        \* position inside main
    \* ---- a private function applied to drawn inputs
    fn,         \* which function
    arg,        \* its arguments
    out         \* its result, NoOut before the call

mainVars == <<argv, collected, books, checked, stdout, mpc>>

\* What the client's actions leave alone, and what the others do.
notClientVars == <<fn, arg, out, book, build, bpc, cbz_len, entries, errors, inspected, bres,
                   vinfo, mainVars>>
notBookVars == <<cache, pc, title, volume, csrf_token, res, cache0, searches, home, ncalls,
                 fn, arg, out, mainVars>>
notPureVars == <<cache, pc, title, volume, csrf_token, res, net, cache0, searches, home,
                 ncalls, book, build, bpc, cbz_len, entries, errors, inspected, bres,
                 vinfo, mainVars>>
vars == <<cache, pc, title, volume, csrf_token, res, net, cache0, searches, home, ncalls,
          book, build, bpc, cbz_len, entries, errors, inspected, bres, vinfo,
          fn, arg, out, mainVars>>

notMainVars == <<cache, pc, title, volume, csrf_token, res, net, cache0, searches, home,
                 ncalls, book, build, bpc, cbz_len, entries, errors, inspected, bres,
                 vinfo, fn, arg, out>>

\* No run of main in progress.
MainIdle ==
    /\ argv = <<>>
    /\ collected = 0
    /\ books = <<>>
    /\ checked = 0
    /\ stdout = <<>>
    /\ mpc = "idle"

----------------------------------------------------------------------------
(* Option and Result *)

None == <<>>
Some(x) == <<x>>
Ok(v) == [tag |-> "Ok", val |-> v]
Err(e) == [tag |-> "Err", val |-> e]
is_err(r) == r.tag = "Err"

----------------------------------------------------------------------------
(* str *)

\* char::to_lowercase on the characters the model uses.  A letter with a
\* diacritic is one character, written out: "a_macron", "O_circ".
LowerChar(c) ==
    CASE c = "A" -> "a"
      [] c = "B" -> "b"
      [] c = "O" -> "o"
      [] c = "A_circ" -> "a_circ"
      [] c = "O_macron" -> "o_macron"
      [] OTHER -> c

to_lowercase(s) == [i \in 1..Len(s) |-> LowerChar(s[i])]

contains(s, c) == \E i \in 1..Len(s) : s[i] = c

starts_with(s, p) ==
    /\ Len(p) <= Len(s)
    /\ \A i \in 1..Len(p) : s[i] = p[i]

\* str::replace: the matches of `pat` are found left to right, without overlap.
RECURSIVE replace(_, _, _)
replace(s, pat, to) ==
    IF Len(s) < Len(pat) \/ Len(pat) = 0 THEN s
    ELSE IF starts_with(s, pat)
         THEN to \o replace(SubSeq(s, Len(pat) + 1, Len(s)), pat, to)
         ELSE <<s[1]>> \o replace(SubSeq(s, 2, Len(s)), pat, to)

is_whitespace(c) == c = " "

RECURSIVE trim_start(_)
trim_start(s) ==
    IF Len(s) > 0 /\ is_whitespace(s[1]) THEN trim_start(Tail(s)) ELSE s

RECURSIVE trim_end(_)
trim_end(s) ==
    IF Len(s) > 0 /\ is_whitespace(s[Len(s)])
    THEN trim_end(SubSeq(s, 1, Len(s) - 1)) ELSE s

trim(s) == trim_end(trim_start(s))

RECURSIVE trim_start_matches(_, _)
trim_start_matches(s, c) ==
    IF Len(s) > 0 /\ s[1] = c THEN trim_start_matches(Tail(s), c) ELSE s

Digits == {"0", "1", "2", "3", "4", "5", "6", "7", "8", "9"}

DigitValue(c) ==
    CASE c = "0" -> 0 [] c = "1" -> 1 [] c = "2" -> 2 [] c = "3" -> 3
      [] c = "4" -> 4 [] c = "5" -> 5 [] c = "6" -> 6 [] c = "7" -> 7
      [] c = "8" -> 8 [] c = "9" -> 9

RECURSIVE DecimalValue(_)
DecimalValue(s) ==
    IF Len(s) = 0 THEN 0
    ELSE 10 * DecimalValue(SubSeq(s, 1, Len(s) - 1)) + DigitValue(s[Len(s)])

U8Max == 255

\* str::parse::<u8>: digits only, not empty, at most u8::MAX.
parse_u8(s) ==
    IF /\ Len(s) > 0
       /\ \A i \in 1..Len(s) : s[i] \in Digits
       /\ DecimalValue(s) <= U8Max
    THEN Ok(DecimalValue(s))
    ELSE Err("invalid digit")

----------------------------------------------------------------------------
(* bedetheque.rs: the pure helpers *)

\* Normalize the series' title for bedetheque.
bedetheque_normalize(t) == to_lowercase(t)

is_right_series_ignoring_case_only(node, t, exact_match) ==
    /\ node.serie # None
    /\ LET text == to_lowercase(node.serie[1])
       IN  IF exact_match THEN text = bedetheque_normalize(t)
           ELSE starts_with(text, bedetheque_normalize(t))

\* Check if the series under `node` is the right one (i.e. matches `t`).
\* node.serie is the text of the first `.serie` element under the link.
is_right_series(node, t, exact_match) ==
    LET ntitle == bedetheque_normalize(t)
    IN  /\ node.serie # None
        /\ LET text == to_lowercase(trim(replace(node.serie[1], <<"!">>, <<>>)))
           IN  IF exact_match THEN text = ntitle ELSE starts_with(text, ntitle)

\* Extract the book number, if any, from the book link.
\* node.num is the text of the first `.num` element under the link.
get_book_number(node) ==
    IF node.num = None THEN Err("book number not found")
    ELSE LET text == node.num[1]
         IN  IF Len(text) = 0 THEN Ok(None)
             ELSE LET n == parse_u8(trim_start_matches(text, "#"))
                  IN  IF is_err(n) THEN Err("invalid book number")
                      ELSE Ok(Some(n.val))

----------------------------------------------------------------------------
(* bedetheque.rs: URLs *)

\* Bedetheque homepage.
MAIN_URL == [base |-> "https://www.bedetheque.com/", query |-> <<>>]

\* Bedetheque URL where to submit the search form, with the query pairs
\* find_book appends to it.
SEARCH_URL(token, t) ==
    [base  |-> "https://www.bedetheque.com/search/albums",
     query |-> << <<"csrf_token_bel", token>>,
                  <<"RechSerie", bedetheque_normalize(t)>>,
                  <<"RechLangue", "Francais">> >>]

\* The URL of a book's page.
BOOK_URL(u) == [base |-> u, query |-> <<>>]

\* The links Url::parse accepts as they stand (absolute URLs).
BookUrls == {"u1", "u2", "u3", "u4"}

UrlParse(link) == IF link \in BookUrls THEN Ok(link) ELSE Err("invalid book URL")

----------------------------------------------------------------------------
(* bedetheque.rs: Client *)

\* Seconds get_html sleeps before each request.
InterRequestDelay == 2

get_html_without_delay(log, url) == Append(log, [ev |-> "GET", url |-> url])

\* Retrieve and parse the page at `url`: what the call does on the network,
\* appended to `log`.  What it returns (the parsed page, or the error of the
\* request or of reading its body) is an input of the calling action.
get_html(log, url) ==
    log \o << [ev |-> "sleep", secs |-> InterRequestDelay],
              [ev |-> "GET", url |-> url] >>

NotFound == "cannot find book on bedetheque"

\* HashMap::insert
insert(c, key, url) ==
    [k \in DOMAIN c \cup {key} |-> IF k = key THEN url ELSE c[k]]

\* The `for node in nodes` loop of get_link from node i on, with the cache c
\* and the local `res` r so far.  An error (`?`) returns at once, leaving in
\* the cache what the earlier nodes put there.
RECURSIVE link_loop(_, _, _, _, _, _)
link_loop(nodes, i, t, v, c, r) ==
    IF i > Len(nodes)
    THEN [cache |-> c, ret |-> IF r = None THEN Err(NotFound) ELSE Ok(r[1])]
    ELSE LET node == nodes[i]
         IN  IF node.href = None
             THEN [cache |-> c, ret |-> Err("book URL not found")]
             ELSE LET url == UrlParse(node.href[1])
                      number == get_book_number(node)
                  IN  IF is_err(url) THEN [cache |-> c, ret |-> url]
                      ELSE IF is_err(number) THEN [cache |-> c, ret |-> number]
                      ELSE link_loop(nodes, i + 1, t, v,
                                     insert(c, <<t, number.val>>, url.val),
                                     IF number.val = v THEN Some(url.val) ELSE r)

link_nodes_by_prefix(page, t) ==
    LET Prefix(n) == is_right_series(n, t, FALSE)
    IN  SelectSeq(page, Prefix)

\* The nodes get_link iterates on: the exact matches, or the prefix matches
\* when there is no exact match.
link_nodes(page, t) ==
    LET Exact(n) == is_right_series(n, t, TRUE)
        Prefix(n) == is_right_series(n, t, FALSE)
    IN  IF SelectSeq(page, Exact) = <<>> THEN SelectSeq(page, Prefix)
        ELSE SelectSeq(page, Exact)

\* Get the book's URL from the search result of the given series; `resp` is
\* what get_html returned.  Gives the cache afterwards and the return value.
get_link(c, t, v, resp) ==
    IF is_err(resp) THEN [cache |-> c, ret |-> resp]
    ELSE link_loop(link_nodes(resp.val, t), 1, t, v, c, None)

----------------------------------------------------------------------------
(* The inputs of the client: the titles and volumes asked for, and the      *)
(* pages the site answers with.                                             *)

\* Client calls (find_book, fetch_info) in one run.
MaxCalls == 2

Titles ==
    { <<"A", "b">>,                 \* "Ab"
      <<"A", "-", " ", "b">>,       \* "A- b", "Ab" once "- " is removed
      <<"A", "-", "b">> }           \* "A-b", a hyphen and no "- "

Volumes == {None, Some(1), Some(2)}

Link(href, serie, num) == [href |-> href, serie |-> serie, num |-> num]

LkAb1    == Link(Some("u1"), Some(<<"A", "b">>), Some(<<"#", "1">>))
LkAb2    == Link(Some("u2"), Some(<<" ", "A", "B", "!", " ">>), Some(<<"#", "2">>))
LkAbOne  == Link(Some("u3"), Some(<<"A", "b">>), Some(<<>>))
LkAbb1   == Link(Some("u4"), Some(<<"A", "b", "b">>), Some(<<"1">>))
LkAbDup1 == Link(Some("u2"), Some(<<"a", "b">>), Some(<<"#", "1">>))
LkHy1    == Link(Some("u3"), Some(<<"A", "-", " ", "b">>), Some(<<"#", "1">>))
LkHn2    == Link(Some("u4"), Some(<<"A", "-", "b">>), Some(<<"#", "2">>))
LkNoHref == Link(None, Some(<<"A", "b">>), Some(<<"#", "2">>))
LkRelUrl == Link(Some("album.html"), Some(<<"A", "b">>), Some(<<"#", "2">>))
LkBadNum == Link(Some("u4"), Some(<<"A", "b">>), Some(<<"#", "3", "0", "0">>))
LkNoNum  == Link(Some("u4"), Some(<<"A", "b">>), None)
LkNoSerie == Link(Some("u4"), None, Some(<<"#", "1">>))

\* The search-result pages of the client's runs: the `.search-list li a`
\* elements, in document order.
SitePages ==
    { <<>>,
      <<LkAb1, LkAb2>>,
      <<LkAbOne, LkAbb1>>,
      <<LkAbb1, LkNoSerie>>,
      <<LkAb1, LkAbDup1>>,
      <<LkAb1, LkNoHref>>,
      <<LkHy1, LkAb2>>,
      <<LkHn2>> }

SearchResponses == {Err("transport error")} \cup {Ok(p) : p \in SitePages}

Tokens == {"t1", "t2"}

\* The home page: its `#csrf` element, if any, and that element's `value`
\* attribute, if any.
HomePages == {[csrf |-> None], [csrf |-> Some(None)]}
             \cup {[csrf |-> Some(Some(t))] : t \in Tokens}

HomeResponses == {Err("transport error")} \cup {Ok(p) : p \in HomePages}

NoRes == [tag |-> "None", val |-> ""]
NoOut == [tag |-> "None"]

----------------------------------------------------------------------------
(* bedetheque.rs: find_book, one action per step between two page fetches *)

InitClient ==
    /\ cache = <<>>
    /\ pc = "idle"
    /\ title = <<>>
    /\ volume = None
    /\ csrf_token = ""
    /\ res = NoRes
    /\ net = <<>>
    /\ cache0 = <<>>
    /\ searches = <<>>
    /\ home = NoRes
    /\ ncalls = 0

PureIdle ==
    /\ fn = "none"
    /\ arg = <<>>
    /\ out = NoOut

FindBookWithoutLookup(t, v) ==
    /\ pc = "idle"
    /\ ncalls < MaxCalls
    /\ ncalls' = ncalls + 1
    /\ title' = t
    /\ volume' = v
    /\ cache0' = cache
    /\ net' = <<>>
    /\ searches' = <<>>
    /\ home' = NoRes
    /\ csrf_token' = ""
    /\ res' = NoRes
    /\ pc' = "csrf"
    /\ UNCHANGED <<cache, notClientVars>>

\* find_book, lines 58-66: the cache lookup.
FindBook(t, v) ==
    /\ pc = "idle"
    /\ ncalls < MaxCalls
    /\ ncalls' = ncalls + 1
    /\ title' = t
    /\ volume' = v
    /\ cache0' = cache
    /\ net' = <<>>
    /\ searches' = <<>>
    /\ home' = NoRes
    /\ csrf_token' = ""
    /\ IF <<t, v>> \in DOMAIN cache
       THEN /\ res' = Ok(cache[<<t, v>>])
            /\ pc' = "done"
       ELSE /\ res' = NoRes
            /\ pc' = "csrf"
    /\ UNCHANGED <<cache, notClientVars>>

csrf_value_or_default(resp) ==
    IF is_err(resp) THEN resp
    ELSE IF resp.val.csrf = None \/ resp.val.csrf[1] = None THEN Ok("")
    ELSE Ok(resp.val.csrf[1][1])

\* get_csrf_token's value on the home page `resp` holds.
csrf_value(resp) ==
    IF is_err(resp) THEN resp
    ELSE IF resp.val.csrf = None THEN Err("CSRF token not found")
    ELSE IF resp.val.csrf[1] = None THEN Err("CSRF token missing")
    ELSE Ok(resp.val.csrf[1][1])

\* find_book, line 68: get_csrf_token()?
GetCsrfToken(resp) ==
    /\ pc = "csrf"
    /\ net' = get_html(net, MAIN_URL)
    /\ home' = resp
    /\ LET tok == csrf_value(resp)
       IN  IF is_err(tok)
           THEN /\ res' = tok
                /\ pc' = "done"
                /\ UNCHANGED csrf_token
           ELSE /\ csrf_token' = tok.val
                /\ pc' = "search"
                /\ UNCHANGED res
    /\ UNCHANGED <<cache, title, volume, cache0, searches, ncalls, notClientVars>>

\* The record `searches` keeps of one get_link call.
SearchRecord(t, url, resp, r) ==
    [title |-> t, url |-> url, resp |-> resp, ret |-> r.ret,
     nodes |-> IF is_err(resp) THEN <<>> ELSE link_nodes(resp.val, t)]

\* find_book, lines 69-75: the first search.
Search(resp) ==
    /\ pc = "search"
    /\ LET url == SEARCH_URL(csrf_token, title)
           r == get_link(cache, title, volume, resp)
       IN  /\ net' = get_html(net, url)
           /\ cache' = r.cache
           /\ res' = r.ret
           /\ searches' = Append(searches, SearchRecord(title, url, resp, r))
           /\ pc' = IF is_err(r.ret) /\ contains(title, "-") THEN "retry" ELSE "done"
    /\ UNCHANGED <<title, volume, csrf_token, cache0, home, ncalls, notClientVars>>

RetryWithNewToken(resp) ==
    /\ pc = "retry"
    /\ LET t2 == replace(title, <<"-", " ">>, <<>>)
           url == SEARCH_URL(csrf_token, t2)
           r == get_link(cache, t2, volume, resp)
       IN  /\ net' = get_html(get_html(net, MAIN_URL), url)
           /\ cache' = r.cache
           /\ res' = r.ret
           /\ searches' = Append(searches, SearchRecord(t2, url, resp, r))
           /\ pc' = "done"
    /\ UNCHANGED <<title, volume, csrf_token, cache0, home, ncalls, notClientVars>>

\* find_book, lines 77-88: no result with hyphen, try without it.
Retry(resp) ==
    /\ pc = "retry"
    /\ LET t2 == replace(title, <<"-", " ">>, <<>>)
           url == SEARCH_URL(csrf_token, t2)
           r == get_link(cache, t2, volume, resp)
       IN  /\ net' = get_html(net, url)
           /\ cache' = r.cache
           /\ res' = r.ret
           /\ searches' = Append(searches, SearchRecord(t2, url, resp, r))
           /\ pc' = "done"
    /\ UNCHANGED <<title, volume, csrf_token, cache0, home, ncalls, notClientVars>>

\* find_book, line 90: the call returns `res`.
Return ==
    /\ pc = "done"
    /\ pc' = "idle"
    /\ UNCHANGED <<cache, title, volume, csrf_token, res, net, cache0, searches, home, ncalls,
                 notClientVars>>

\* fetch_info: one get_html of the book's page, whatever it answers.
FetchInfo(u) ==
    /\ pc = "idle"
    /\ ncalls < MaxCalls
    /\ ncalls' = ncalls + 1
    /\ net' = get_html(<<>>, BOOK_URL(u))
    /\ UNCHANGED <<cache, pc, title, volume, csrf_token, res, cache0, searches, home,
                 notClientVars>>

NextClient ==
    \/ \E t \in Titles, v \in Volumes : FindBook(t, v)
    \/ \E resp \in HomeResponses : GetCsrfToken(resp)
    \/ \E resp \in SearchResponses : Search(resp)
    \/ \E resp \in SearchResponses : Retry(resp)
    \/ Return
    \/ \E u \in BookUrls : FetchInfo(u)

----------------------------------------------------------------------------
(* cbz.rs: the checks of one image *)

\* Width of usize in bits, scaled down from 64 so that the values that
\* overflow it are within reach.
UsizeBits == 6

UsizeMax == 2 ^ UsizeBits - 1

\* Expected modified date.
EXPECTED_DATE ==
    [year |-> 2000, month |-> 1, day |-> 1, hour |-> 0, minute |-> 0, second |-> 1]

check_date_and_time(date) == date = EXPECTED_DATE

\* Check that the date match the expected one.
check_date(date) ==
    /\ EXPECTED_DATE.year = date.year
    /\ EXPECTED_DATE.month = date.month
    /\ EXPECTED_DATE.day = date.day

Builds == {"debug", "release"}

\* usize arithmetic: with overflow checks (a debug build) an overflow
\* panics, without them (a release build) the value wraps.
Overflows(x) == x < 0 \/ x > UsizeMax
Wrap(x) == x % (2 ^ UsizeBits)

\* check_image, lines 157-168: the width check of an image `w` wide in a
\* book whose name declares `W`.  "panic", or whether the width passes.
check_width(bld, W, w) ==
    LET margin == W \div 10
        lo == 2 * W - margin
        hi == 2 * W + margin
    IN  IF bld = "debug" /\ (Overflows(2 * W) \/ Overflows(lo) \/ Overflows(hi))
        THEN "panic"
        ELSE LET wlo == Wrap(Wrap(2 * W) - margin)
                 whi == Wrap(Wrap(2 * W) + margin)
             IN  IF w # W /\ ~(wlo <= w /\ w <= whi) THEN "Width" ELSE "pass"

----------------------------------------------------------------------------
(* cbz.rs: Book::check *)

\* Normalize authors list for easier comparison, best effort...
cbz_normalize(authors) ==
    LET s0 == to_lowercase(authors)
        s1 == replace(s0, <<"a_macron">>, <<"a", "a">>)
        s2 == replace(s1, <<"a_circ">>, <<"a", "a">>)
        s3 == replace(s2, <<"u_macron">>, <<"u", "u">>)
        s4 == replace(s3, <<"u_circ">>, <<"u", "u">>)
        s5 == replace(s4, <<"e_macron">>, <<"e", "e">>)
        s6 == replace(s5, <<"e_circ">>, <<"e", "e">>)
        s7 == replace(s6, <<"o_macron">>, <<"o", "u">>)
        s8 == replace(s7, <<"o_circ">>, <<"o", "u">>)
    IN  replace(s8, <<"o", "o">>, <<"o", "u">>)

\* Error, the findings of a check.
Authors(a) == [kind |-> "Authors", expected |-> a]
Year(ys) == [kind |-> "Year", expected |-> ys]
Width == [kind |-> "Width"]
Date == [kind |-> "Date"]
Exif == [kind |-> "Exif"]

metadata_errors_year_unless_authors(b, info, errs) ==
    IF cbz_normalize(info.authors) # cbz_normalize(b.authors)
    THEN Append(errs, Authors(info.authors))
    ELSE IF b.year \notin info.years THEN Append(errs, Year(info.years)) ELSE errs

\* check_book_metadata, lines 193-199: `errs` with the findings that the
\* catalog's `info` raises for book b.
metadata_errors(b, info, errs) ==
    LET e1 == IF cbz_normalize(info.authors) # cbz_normalize(b.authors)
              THEN Append(errs, Authors(info.authors)) ELSE errs
    IN  IF b.year \notin info.years THEN Append(e1, Year(info.years)) ELSE e1

\* Entries in an archive.
MaxEntries == 3

\* A declared width whose dual-page band overflows usize.
BigWidth == 2 ^ (UsizeBits - 1) + 11

Books ==
    [url : {"u1"}, authors : {<<"A", "o", "o">>, <<"B">>}, year : {2000},
     width : {10, BigWidth}]

\* VolumeInfo values fetch_info gives.
Infos ==
    [authors : {<<"a", "O_macron">>, <<"B", "-", "A", "o", "o">>},
     years : {{2000, 2001}, {1999}}]

InfoResponses == {Err("transport error")} \cup {Ok(x) : x \in Infos}

SentinelDayAt(h, m, sec) ==
    [year |-> 2000, month |-> 1, day |-> 1, hour |-> h, minute |-> m, second |-> sec]

\* What by_index can give: an error, a directory, or a file with its
\* last-modified date, whether its bytes can be read, the width
\* imagesize::blob_size finds in them (None: it fails) and what the EXIF
\* reader finds.
NoEntry == [index_ok |-> FALSE]

DirEntry ==
    [index_ok |-> TRUE, is_file |-> FALSE,
     last_modified |-> [year |-> 2020, month |-> 5, day |-> 17,
                        hour |-> 12, minute |-> 0, second |-> 0]]

FileEntries ==
    [index_ok : {TRUE}, is_file : {TRUE},
     last_modified : {SentinelDayAt(0, 0, 1), SentinelDayAt(13, 37, 0),
                      [year |-> 2000, month |-> 1, day |-> 2,
                       hour |-> 0, minute |-> 0, second |-> 1]},
     read_ok : BOOLEAN,
     width : {None, Some(10), Some(21), Some(22), Some(BigWidth)},
     exif : {"NotFound", "Found", "Error"}]

EntryPool == {NoEntry, DirEntry} \cup FileEntries

NoBook == [url |-> "", authors |-> <<>>, year |-> 0, width |-> 0]

BookIdle ==
    /\ book = NoBook
    /\ build = "debug"
    /\ bpc = "idle"
    /\ cbz_len = 0
    /\ entries = <<>>
    /\ errors = <<>>
    /\ inspected = <<>>
    /\ bres = NoRes
    /\ vinfo = None

InitBook ==
    /\ InitClient
    /\ MainIdle
    /\ fn = "none"
    /\ arg = <<>>
    /\ out = NoOut
    /\ book \in Books
    /\ build \in Builds
    /\ bpc = "open"
    /\ cbz_len = 0
    /\ entries = <<>>
    /\ errors = <<>>
    /\ inspected = <<>>
    /\ bres = NoRes
    /\ vinfo = None

\* check, lines 77-79: open the file and read the archive's directory.
\* `opened` is the error, or Ok(the number of entries).
CheckOpen(opened) ==
    /\ bpc = "open"
    /\ IF is_err(opened)
       THEN /\ bres' = opened
            /\ bpc' = "done"
            /\ UNCHANGED cbz_len
       ELSE /\ cbz_len' = opened.val
            /\ bpc' = "metadata"
            /\ UNCHANGED bres
    /\ UNCHANGED <<book, build, entries, errors, inspected, vinfo, net, notBookVars>>

\* check, line 81: check_book_metadata, and the return of line 100 when the
\* archive has no entry.
CheckBookMetadata(resp) ==
    /\ bpc = "metadata"
    /\ net' = get_html(<<>>, BOOK_URL(book.url))
    /\ vinfo' = IF is_err(resp) THEN None ELSE Some(resp.val)
    /\ IF is_err(resp)
       THEN /\ bres' = Err("failed to get metadata from bedetheque")
            /\ bpc' = "done"
            /\ UNCHANGED errors
       ELSE /\ errors' = metadata_errors(book, resp.val, errors)
            /\ IF cbz_len = 0
               THEN bres' = Ok(errors') /\ bpc' = "done"
               ELSE bres' = bres /\ bpc' = "entries"
    /\ UNCHANGED <<book, build, cbz_len, entries, inspected, notBookVars>>

Panic == [tag |-> "Panic", val |-> "attempt to multiply with overflow"]

check_image_going_on_after_width(bld, b, entry, k) ==
    IF ~entry.read_ok
    THEN [ret |-> Err("failed to read image"), errs |-> <<>>, ops |-> << <<k, "read">> >>]
    ELSE IF check_width(bld, b.width, 0) = "panic"
    THEN [ret |-> Panic, errs |-> <<>>, ops |-> << <<k, "read">> >>]
    ELSE IF entry.width = None
    THEN [ret |-> Err("cannot get width"), errs |-> <<>>,
          ops |-> << <<k, "read">>, <<k, "blob_size">> >>]
    ELSE LET found == IF check_width(bld, b.width, entry.width[1]) = "Width"
                      THEN <<Width>> ELSE <<>>
             ops == << <<k, "read">>, <<k, "blob_size">>, <<k, "exif">> >>
         IN  IF entry.exif = "Found"
             THEN [ret |-> Ok(FALSE), errs |-> Append(found, Exif), ops |-> ops]
             ELSE IF entry.exif = "NotFound"
             THEN [ret |-> Ok(TRUE), errs |-> found, ops |-> ops]
             ELSE [ret |-> Err("cannot check EXIF"), errs |-> <<>>, ops |-> ops]

\* Check the image: entry k of book b's archive.  The return value (Panic
\* when the band overflows), the findings pushed and what was done to the
\* entry.
check_image(bld, b, entry, k) ==
    IF ~entry.read_ok
    THEN [ret |-> Err("failed to read image"), errs |-> <<>>, ops |-> << <<k, "read">> >>]
    ELSE IF check_width(bld, b.width, 0) = "panic"
    THEN [ret |-> Panic, errs |-> <<>>, ops |-> << <<k, "read">> >>]
    ELSE IF entry.width = None
    THEN [ret |-> Err("cannot get width"), errs |-> <<>>,
          ops |-> << <<k, "read">>, <<k, "blob_size">> >>]
    ELSE IF check_width(bld, b.width, entry.width[1]) = "Width"
    THEN [ret |-> Ok(FALSE), errs |-> <<Width>>,
          ops |-> << <<k, "read">>, <<k, "blob_size">> >>]
    ELSE IF entry.exif = "Found"
    THEN [ret |-> Ok(FALSE), errs |-> <<Exif>>,
          ops |-> << <<k, "read">>, <<k, "blob_size">>, <<k, "exif">> >>]
    ELSE IF entry.exif = "NotFound"
    THEN [ret |-> Ok(TRUE), errs |-> <<>>,
          ops |-> << <<k, "read">>, <<k, "blob_size">>, <<k, "exif">> >>]
    ELSE [ret |-> Err("cannot check EXIF"), errs |-> <<>>,
          ops |-> << <<k, "read">>, <<k, "blob_size">>, <<k, "exif">> >>]

check_entry_without_date_break(bld, b, entry, k, errs) ==
    IF ~entry.index_ok
    THEN [end |-> "error", err |-> "failed to read ZIP entry", errs |-> errs,
          ops |-> << <<k, "by_index">> >>]
    ELSE IF ~entry.is_file
    THEN [end |-> "continue", err |-> "", errs |-> errs,
          ops |-> << <<k, "by_index">>, <<k, "is_file">> >>]
    ELSE LET dated == IF check_date(entry.last_modified) THEN errs
                      ELSE Append(errs, Date)
             img == check_image(bld, b, entry, k)
             ops == << <<k, "by_index">>, <<k, "is_file">>, <<k, "last_modified">> >>
                    \o img.ops
         IN  IF img.ret.tag = "Panic"
             THEN [end |-> "panic", err |-> "", errs |-> dated, ops |-> ops]
             ELSE IF is_err(img.ret)
             THEN [end |-> "error", err |-> img.ret.val, errs |-> dated, ops |-> ops]
             ELSE [end |-> IF img.ret.val THEN "next" ELSE "break", err |-> "",
                   errs |-> dated \o img.errs, ops |-> ops]

\* One turn of the loop of check, lines 82-98, on entry k: what becomes of
\* `errors`, what was done to the entry, and how the turn ends: "continue"
\* or "next" (on to entry k + 1), "break", "error" (`?`) or "panic".
check_entry(bld, b, entry, k, errs) ==
    IF ~entry.index_ok
    THEN [end |-> "error", err |-> "failed to read ZIP entry", errs |-> errs,
          ops |-> << <<k, "by_index">> >>]
    ELSE IF ~entry.is_file
    THEN [end |-> "continue", err |-> "", errs |-> errs,
          ops |-> << <<k, "by_index">>, <<k, "is_file">> >>]
    ELSE IF ~check_date(entry.last_modified)
    THEN [end |-> "break", err |-> "", errs |-> Append(errs, Date),
          ops |-> << <<k, "by_index">>, <<k, "is_file">>, <<k, "last_modified">> >>]
    ELSE LET img == check_image(bld, b, entry, k)
             ops == << <<k, "by_index">>, <<k, "is_file">>, <<k, "last_modified">> >>
                    \o img.ops
         IN  IF img.ret.tag = "Panic"
             THEN [end |-> "panic", err |-> "", errs |-> errs, ops |-> ops]
             ELSE IF is_err(img.ret)
             THEN [end |-> "error", err |-> img.ret.val, errs |-> errs, ops |-> ops]
             ELSE [end |-> IF img.ret.val THEN "next" ELSE "break", err |-> "",
                   errs |-> errs \o img.errs, ops |-> ops]

\* check, lines 82-100: entry i of the archive, which by_index gives as
\* `entry`, and the return when the loop ends there.
CheckEntry(entry) ==
    /\ bpc = "entries"
    /\ LET k == Len(entries)
           r == check_entry(build, book, entry, k, errors)
           last == k + 1 = cbz_len
       IN  /\ entries' = Append(entries, entry)
           /\ inspected' = inspected \o r.ops
           /\ errors' = r.errs
           /\ CASE r.end = "panic" -> bpc' = "panicked" /\ bres' = bres
                [] r.end = "error" -> bpc' = "done" /\ bres' = Err(r.err)
                [] r.end = "break" -> bpc' = "done" /\ bres' = Ok(r.errs)
                [] OTHER -> IF last THEN bpc' = "done" /\ bres' = Ok(r.errs)
                            ELSE bpc' = "entries" /\ bres' = bres
    /\ UNCHANGED <<book, build, cbz_len, vinfo, net, notBookVars>>

NextBook ==
    \/ \E opened \in {Err("open error"), Err("read error")}
                     \cup {Ok(n) : n \in 0..MaxEntries} : CheckOpen(opened)
    \/ \E resp \in InfoResponses : CheckBookMetadata(resp)
    \/ \E entry \in EntryPool : CheckEntry(entry)

SpecBook == InitBook /\ [][NextBook]_vars

----------------------------------------------------------------------------
(* Private functions applied to inputs drawn from bounded sets *)

\* Longest title and series text is_right_series is applied to.
MaxLen == 3

\* Most links on a page get_link is applied to.
MaxLinks == 3

TextChars == {"a", "A", "!", " "}

SeqsUpTo(S, n) == UNION {[1..k -> S] : k \in 0..n}

LinkPool ==
    {LkAb1, LkAb2, LkAbOne, LkAbb1, LkAbDup1, LkHy1, LkHn2,
     LkNoHref, LkRelUrl, LkBadNum, LkNoNum, LkNoSerie}

\* zip::DateTime values: MS-DOS dates go from 1980 to 2107.
Dates ==
    [year : {1980, 2000, 2001, 2107}, month : {1, 2, 12}, day : {1, 2, 31},
     hour : {0, 23}, minute : {0, 59}, second : {0, 1, 58}]

InitPure ==
    /\ InitClient
    /\ BookIdle
    /\ MainIdle
    /\ out = NoOut
    /\ \/ /\ fn = "is_right_series"
          /\ arg \in [title : SeqsUpTo(TextChars, MaxLen),
                      serie : {None} \cup {Some(x) : x \in SeqsUpTo(TextChars, MaxLen)}]
       \/ /\ fn = "get_link"
          /\ arg \in [title : Titles, volume : Volumes,
                      resp : {Err("transport error")}
                             \cup {Ok(pg) : pg \in SeqsUpTo(LinkPool, MaxLinks)}]
       \/ /\ fn = "check_date"
          /\ arg \in Dates
       \/ /\ fn = "check_width"
          /\ arg \in [build : Builds, W : 0..UsizeMax, w : 0..UsizeMax]

ApplyIsRightSeries ==
    /\ fn = "is_right_series"
    /\ out = NoOut
    /\ out' = [tag |-> "Ret",
               exact |-> is_right_series(arg, arg.title, TRUE),
               prefix |-> is_right_series(arg, arg.title, FALSE)]
    /\ UNCHANGED <<fn, arg, notPureVars>>

ApplyGetLink ==
    /\ fn = "get_link"
    /\ out = NoOut
    /\ out' = [tag |-> "Ret",
               val |-> get_link(<<>>, arg.title, arg.volume, arg.resp)]
    /\ UNCHANGED <<fn, arg, notPureVars>>

ApplyCheckDate ==
    /\ fn = "check_date"
    /\ out = NoOut
    /\ out' = [tag |-> "Ret", val |-> check_date(arg)]
    /\ UNCHANGED <<fn, arg, notPureVars>>

ApplyCheckWidth ==
    /\ fn = "check_width"
    /\ out = NoOut
    /\ out' = [tag |-> "Ret", val |-> check_width(arg.build, arg.W, arg.w)]
    /\ UNCHANGED <<fn, arg, notPureVars>>

NextPure ==
    \/ ApplyIsRightSeries
    \/ ApplyGetLink
    \/ ApplyCheckDate
    \/ ApplyCheckWidth

SpecPure == InitPure /\ [][NextPure]_vars

----------------------------------------------------------------------------
(* The book's side: what is read from the catalog's page and from the file  *)
(* name, applied to inputs drawn from bounded sets                           *)

\* Check the book's metadata: `resp` is what fetch_info returned.  The return
\* value and `errors` afterwards.
check_book_metadata(b, resp, errs) ==
    IF is_err(resp)
    THEN [ret |-> Err("failed to get metadata from bedetheque"), errs |-> errs]
    ELSE [ret |-> Ok("()"), errs |-> metadata_errors(b, resp.val, errs)]

\* Longest authors string check_book_metadata is applied to.
MaxAuthorsLen == 2

\* ---- metadata.rs: VolumeInfo::new

\* An ".infos li" element of the page is its label and the text that
\* follows "<label> :", leading whitespace included.
InfoLine(label, text) == [label |-> label, text |-> text]

leading_whitespace(s) == Len(s) - Len(trim_start(s))

\* The longest prefix of s without a comma: what [^,]+ takes.
RECURSIVE up_to_comma(_)
up_to_comma(s) ==
    IF s = <<>> \/ s[1] = "," THEN <<>> ELSE <<s[1]>> \o up_to_comma(Tail(s))

\* AUTHOR_REGEX on a line: None, or the captures `category` and `name`.
\* \s+ takes the whitespace after the colon and gives the last of it back
\* when no name follows.
AUTHOR_REGEX(line) ==
    LET ws == leading_whitespace(line.text)
        rest == trim_start(line.text)
    IN  IF line.label \notin {"Scenario", "Dessin"} \/ ws = 0 THEN None
        ELSE IF up_to_comma(rest) # <<>>
        THEN Some([category |-> line.label, name |-> up_to_comma(rest)])
        ELSE IF ws >= 2
        THEN Some([category |-> line.label, name |-> <<" ">>])
        ELSE None

U16Max == 65535

\* str::parse::<u16>: digits only, not empty, at most u16::MAX.
parse_u16(t) ==
    IF /\ Len(t) > 0
       /\ \A i \in 1..Len(t) : t[i] \in Digits
       /\ DecimalValue(t) <= U16Max
    THEN Ok(DecimalValue(t))
    ELSE Err("invalid digit")

\* YEAR_REGEX on a line: None, or the capture `year` parsed as a u16 (four
\* digits always fit): "Depot legal :", whitespace, two digits, a slash,
\* four digits.
YEAR_REGEX(line) ==
    LET ws == leading_whitespace(line.text)
        rest == trim_start(line.text)
    IN  IF /\ line.label = "Depot legal"
           /\ ws >= 1
           /\ Len(rest) >= 7
           /\ rest[1] \in Digits /\ rest[2] \in Digits /\ rest[3] = "/"
           /\ \A i \in 4..7 : rest[i] \in Digits
        THEN Some(parse_u16(SubSeq(rest, 4, 7)).val)
        ELSE None

\* The order of String: byte-wise, character by character.
CharCode(c) ==
    CASE c = " " -> 32 [] c = "A" -> 65 [] c = "B" -> 66 [] c = "C" -> 67
      [] c = "a" -> 97 [] OTHER -> 127

RECURSIVE StrLess(_, _)
StrLess(a, b) ==
    IF b = <<>> THEN FALSE
    ELSE IF a = <<>> THEN TRUE
    ELSE IF a[1] # b[1] THEN CharCode(a[1]) < CharCode(b[1])
    ELSE StrLess(Tail(a), Tail(b))

\* Vec::from_iter(BTreeSet): the elements in increasing order.
RECURSIVE from_iter(_)
from_iter(S) ==
    IF S = {} THEN <<>>
    ELSE LET m == CHOOSE x \in S : \A y \in S \ {x} : StrLess(x, y)
         IN  <<m>> \o from_iter(S \ {m})

\* [String]::join.
RECURSIVE join(_, _)
join(v, sep) ==
    IF v = <<>> THEN <<>>
    ELSE IF Len(v) = 1 THEN v[1]
    ELSE v[1] \o sep \o join(Tail(v), sep)

RECURSIVE info_loop_always_penciller(_, _, _, _, _)
info_loop_always_penciller(page, i, years, writers, pencillers) ==
    IF i > Len(page)
    THEN [years |-> years, writers |-> writers, pencillers |-> pencillers]
    ELSE LET a == AUTHOR_REGEX(page[i])
             y == YEAR_REGEX(page[i])
         IN  IF a # None
             THEN IF a[1].category = "Dessin"
                  THEN info_loop_always_penciller(page, i + 1, years, writers,
                                 pencillers \cup {trim(a[1].name)})
                  ELSE info_loop_always_penciller(page, i + 1, years,
                                 writers \cup {trim(a[1].name)}, pencillers)
             ELSE IF y # None
             THEN info_loop_always_penciller(page, i + 1, years \cup {y[1]},
                                             writers, pencillers)
             ELSE info_loop_always_penciller(page, i + 1, years, writers, pencillers)

\* The `for node` loop of VolumeInfo::new from line i on, with the three
\* sets so far.
RECURSIVE info_loop(_, _, _, _, _)
info_loop(page, i, years, writers, pencillers) ==
    IF i > Len(page)
    THEN [years |-> years, writers |-> writers, pencillers |-> pencillers]
    ELSE LET a == AUTHOR_REGEX(page[i])
             y == YEAR_REGEX(page[i])
         IN  IF a # None
             THEN LET name == trim(a[1].name)
                  IN  IF a[1].category = "Dessin"
                      THEN info_loop(page, i + 1, years, writers,
                                     IF name \notin writers
                                     THEN pencillers \cup {name} ELSE pencillers)
                      ELSE info_loop(page, i + 1, years, writers \cup {name}, pencillers)
             ELSE IF y # None
             THEN info_loop(page, i + 1, years \cup {y[1]}, writers, pencillers)
             ELSE info_loop(page, i + 1, years, writers, pencillers)

\* VolumeInfo::new: writers first, pencillers next, joined by hyphens.
VolumeInfo_new(page) ==
    LET sets == info_loop(page, 1, {}, {}, {})
    IN  [authors |-> join(from_iter(sets.writers) \o from_iter(sets.pencillers), <<"-">>),
         years |-> sets.years]

\* ---- cbz.rs: Book::new

\* The characters \w matches, among those the model uses.
WordChars == Digits \cup {"A", "B", "D", "T", "a", "b", "c", "i", "p", "z", "_"}

\* The end of the longest run of characters of Class that starts at i
\* (i - 1 when there is none): what a greedy [class]+ takes when the
\* character that must follow it is not of the class.
RECURSIVE run_end(_, _, _)
run_end(t, i, Class) ==
    IF i <= Len(t) /\ t[i] \in Class THEN run_end(t, i + 1, Class) ELSE i - 1

\* t has `lit` at position i.
at(t, i, lit) ==
    /\ i + Len(lit) - 1 <= Len(t)
    /\ \A j \in 1..Len(lit) : t[i + j - 1] = lit[j]

\* The tail the two patterns share, with `authors` from p to c:
\* (authors) (year) [tag-width].  The ends of `tag` and of `width`.
tag_end(t, c) == run_end(t, c + 11, WordChars)
width_end(t, c) == run_end(t, tag_end(t, c) + 2, Digits)

tail_matches(t, p, c) ==
    /\ c >= p
    /\ at(t, c + 1, <<")", " ", "(">>)
    /\ run_end(t, c + 4, Digits) >= c + 7
    /\ at(t, c + 8, <<")", " ", "[">>)
    /\ tag_end(t, c) >= c + 11
    /\ at(t, tag_end(t, c) + 1, <<"-">>)
    /\ width_end(t, c) >= tag_end(t, c) + 2
    /\ at(t, width_end(t, c) + 1, <<"]">>)

\* The greedy choice among the ways to match: the longest title, then the
\* longest authors.
Greediest(cands) ==
    CHOOSE x \in cands : \A y \in cands :
        x[1] > y[1] \/ (x[1] = y[1] /\ x[2] >= y[2])

\* SERIES_REGEX.captures: title from 1 to a, " T", volume up to b, " (",
\* authors up to c, then the tail.
SERIES_REGEX(t) ==
    LET vol_end(a) == run_end(t, a + 3, Digits)
        cands == {x \in (1..Len(t)) \X (1..Len(t)) :
                     /\ at(t, x[1] + 1, <<" ", "T">>)
                     /\ vol_end(x[1]) >= x[1] + 3
                     /\ at(t, vol_end(x[1]) + 1, <<" ", "(">>)
                     /\ tail_matches(t, vol_end(x[1]) + 3, x[2])}
    IN  IF cands = {} THEN None
        ELSE LET a == Greediest(cands)[1]
                 c == Greediest(cands)[2]
             IN  Some([title |-> SubSeq(t, 1, a),
                       volume |-> Some(SubSeq(t, a + 3, vol_end(a))),
                       authors |-> SubSeq(t, vol_end(a) + 3, c),
                       year |-> SubSeq(t, c + 4, c + 7),
                       width |-> SubSeq(t, tag_end(t, c) + 2, width_end(t, c))])

\* ONESHOT_REGEX.captures: title from 1 to a, " (", authors up to c, then
\* the tail.
ONESHOT_REGEX(t) ==
    LET cands == {x \in (1..Len(t)) \X (1..Len(t)) :
                     /\ at(t, x[1] + 1, <<" ", "(">>)
                     /\ tail_matches(t, x[1] + 3, x[2])}
    IN  IF cands = {} THEN None
        ELSE LET a == Greediest(cands)[1]
                 c == Greediest(cands)[2]
             IN  Some([title |-> SubSeq(t, 1, a),
                       volume |-> None,
                       authors |-> SubSeq(t, a + 3, c),
                       year |-> SubSeq(t, c + 4, c + 7),
                       width |-> SubSeq(t, tag_end(t, c) + 2, width_end(t, c))])

\* str::parse::<usize>.
parse_usize(t) ==
    IF /\ Len(t) > 0
       /\ \A i \in 1..Len(t) : t[i] \in Digits
       /\ DecimalValue(t) <= UsizeMax
    THEN Ok(DecimalValue(t))
    ELSE Err("number too large to fit in target type")

\* Path::extension: what follows the last dot of the file name, None
\* without a dot or when the only dot comes first.
RECURSIVE extension(_)
extension(t) ==
    IF Len(t) <= 1 THEN None
    ELSE IF t[Len(t)] = "." THEN Some(<<>>)
    ELSE LET e == extension(SubSeq(t, 1, Len(t) - 1))
         IN  IF e = None THEN None ELSE Some(e[1] \o <<t[Len(t)]>>)

NoQuery == [called |-> FALSE]

\* new_from_captures: the fields are parsed in the order title, volume,
\* authors, year, width (an `expect` panics on a number that does not fit),
\* then `lookup` is what find_book(title, volume) returns.  The return value
\* and the find_book call made.
new_from_captures(captures, lookup) ==
    LET volume_ == IF captures.volume = None THEN Ok(None)
                   ELSE parse_u8(captures.volume[1])
        year_ == parse_u16(captures.year)
        width_ == parse_usize(captures.width)
    IN  IF is_err(volume_)
        THEN [ret |-> [tag |-> "Panic", val |-> "valid volume"], query |-> NoQuery]
        ELSE IF is_err(width_)
        THEN [ret |-> [tag |-> "Panic", val |-> "valid width"], query |-> NoQuery]
        ELSE LET query == [called |-> TRUE, title |-> captures.title,
                           volume |-> IF captures.volume = None THEN None
                                      ELSE Some(volume_.val)]
             IN  IF is_err(lookup) THEN [ret |-> lookup, query |-> query]
                 ELSE [ret |-> Ok([url |-> lookup.val, authors |-> captures.authors,
                                   year |-> year_.val, width |-> width_.val]),
                       query |-> query]

Book_new_oneshot_first(filename, lookup) ==
    IF extension(filename) # Some(<<"c", "b", "z">>)
    THEN [ret |-> Err("not a CBZ"), query |-> NoQuery]
    ELSE IF ONESHOT_REGEX(filename) # None
    THEN new_from_captures(ONESHOT_REGEX(filename)[1], lookup)
    ELSE IF SERIES_REGEX(filename) # None
    THEN new_from_captures(SERIES_REGEX(filename)[1], lookup)
    ELSE [ret |-> Err("cannot extract info from filename"), query |-> NoQuery]

\* Initialize a new book by extracting information from its name.
Book_new(filename, lookup) ==
    IF extension(filename) # Some(<<"c", "b", "z">>)
    THEN [ret |-> Err("not a CBZ"), query |-> NoQuery]
    ELSE IF SERIES_REGEX(filename) # None
    THEN new_from_captures(SERIES_REGEX(filename)[1], lookup)
    ELSE IF ONESHOT_REGEX(filename) # None
    THEN new_from_captures(ONESHOT_REGEX(filename)[1], lookup)
    ELSE [ret |-> Err("cannot extract info from filename"), query |-> NoQuery]

\* File names, by the parts they are written from:
\* <title>[ T<volume>] (<authors>) (<year>) [<tag>-<width>]<ext>.
FieldPool ==
    {<<>>, <<"A">>, <<"A", "-", "B">>, <<"A", " ", "T", "1">>, <<"A", " ", "(", "B">>,
     <<"A", " ", "T", "1", " ", "(", "B">>}

NameParts ==
    [title : FieldPool,
     volume : {None, Some(<<"1">>), Some(<<"2", "5">>), Some(<<"3", "0", "0">>)},
     authors : FieldPool,
     year : {<<"2", "0", "0", "0">>},
     tag : {<<"D">>},
     width : {<<"1", "0">>, <<"6", "5", "5", "3", "6">>},
     ext : {<<".", "c", "b", "z">>, <<".", "z", "i", "p">>}]

FileName(p) ==
    p.title \o (IF p.volume = None THEN <<>> ELSE <<" ", "T">> \o p.volume[1])
    \o <<" ", "(">> \o p.authors \o <<")", " ", "(">> \o p.year
    \o <<")", " ", "[">> \o p.tag \o <<"-">> \o p.width \o <<"]">> \o p.ext

\* What find_book returns to Book::new.
Lookups == {Ok("u1"), Err(NotFound), Err("transport error")}

\* Most info lines on a catalog page.
MaxLines == 3

CreditTexts ==
    {<<" ", "A">>, <<" ", "B">>, <<" ", "C">>, <<" ", " ", "A", " ">>,
     <<" ", "B", ",", " ", "C">>}

InfoLines ==
    {InfoLine(l, t) : l \in {"Scenario", "Dessin"}, t \in CreditTexts}
    \cup {InfoLine("Depot legal", <<" ", "0", "1", "/", "2", "0", "0", "0">>),
          InfoLine("Depot legal", <<" ", "1", "2", "/", "1", "9", "9", "9">>),
          InfoLine("Format", <<" ", "A">>)}

AuthorChars == {"A", "a", "A_circ", "o", "O_macron", "u"}

InitFile ==
    /\ InitClient
    /\ BookIdle
    /\ MainIdle
    /\ out = NoOut
    /\ \/ /\ fn = "check_book_metadata"
          /\ arg \in [authors : SeqsUpTo(AuthorChars, MaxAuthorsLen),
                      year : {2000},
                      resp : {Err("transport error")}
                             \cup {Ok(x) : x \in
                                      [authors : SeqsUpTo(AuthorChars, MaxAuthorsLen),
                                       years : {{2000, 2001}, {1999}}]}]
       \/ /\ fn = "VolumeInfo::new"
          /\ arg \in SeqsUpTo(InfoLines, MaxLines)
       \/ /\ fn = "Book::new"
          /\ arg \in {[filename |-> FileName(p), parts |-> p, lookup |-> l] :
                         p \in NameParts, l \in Lookups}

ApplyCheckBookMetadata ==
    /\ fn = "check_book_metadata"
    /\ out = NoOut
    /\ out' = [tag |-> "Ret",
               val |-> check_book_metadata(
                           [url |-> "u1", authors |-> arg.authors,
                            year |-> arg.year, width |-> 10],
                           arg.resp, <<>>)]
    /\ UNCHANGED <<fn, arg, notPureVars>>

ApplyVolumeInfoNew ==
    /\ fn = "VolumeInfo::new"
    /\ out = NoOut
    /\ out' = [tag |-> "Ret", val |-> VolumeInfo_new(arg)]
    /\ UNCHANGED <<fn, arg, notPureVars>>

ApplyBookNew ==
    /\ fn = "Book::new"
    /\ out = NoOut
    /\ out' = [tag |-> "Ret", val |-> Book_new(arg.filename, arg.lookup)]
    /\ UNCHANGED <<fn, arg, notPureVars>>

NextFile ==
    \/ ApplyCheckBookMetadata
    \/ ApplyVolumeInfoNew
    \/ ApplyBookNew

SpecFile == InitFile /\ [][NextFile]_vars

----------------------------------------------------------------------------
(* main.rs: a run over several files *)

\* Most files in a run.
MaxFiles == 3

\* The least number of Searx instances main goes on with.
MinServers == 10

SeriesName(t, v, a, w, e) ==
    FileName([title |-> t, volume |-> v, authors |-> a, year |-> <<"2", "0", "0", "0">>,
              tag |-> <<"D">>, width |-> w, ext |-> e])

\* The files of a run: a name and what find_book answers for it; IoError is
\* a directory that cannot be read or an entry of it that cannot be accessed.
IoError == [kind |-> "io error"]

File(name, lookup) == [kind |-> "file", filename |-> name, lookup |-> lookup]

RunFiles ==
    {File(SeriesName(<<"A">>, Some(<<"1">>), <<"B">>, <<"1", "0">>, <<".", "c", "b", "z">>),
          Ok("u1")),
     File(SeriesName(<<"A">>, Some(<<"1">>), <<"B">>, <<"1", "0">>, <<".", "c", "b", "z">>),
          Err(NotFound)),
     File(SeriesName(<<"A">>, Some(<<"1">>), <<"B">>, <<"1", "0">>, <<".", "z", "i", "p">>),
          Ok("u1")),
     File(SeriesName(<<"A">>, None, <<>>, <<"1", "0">>, <<".", "c", "b", "z">>), Ok("u1")),
     File(SeriesName(<<"A">>, Some(<<"3", "0", "0">>), <<"B">>, <<"1", "0">>,
                     <<".", "c", "b", "z">>), Ok("u1")),
     File(SeriesName(<<"A">>, None, <<"B">>, <<"6", "5", "5", "3", "6">>,
                     <<".", "c", "b", "z">>), Ok("u1")),
     IoError}

\* What Book::check gives main: a list of findings, an error, or a panic.
CheckResults ==
    {Ok(<<>>), Ok(<<Width>>), Err("open error"), Err("failed to read ZIP entry"), Panic}

InitMain ==
    /\ InitClient
    /\ PureIdle
    /\ BookIdle
    /\ argv \in SeqsUpTo(RunFiles, MaxFiles)
    /\ collected = 0
    /\ books = <<>>
    /\ checked = 0
    /\ stdout = <<>>
    /\ mpc = "serverlist"

\* A line about file i of the run.
Line(level, i, msg) == [level |-> level, file |-> i, msg |-> msg]

\* main, lines 73-75: `serverlist` is what fetch_serverlist returned, the
\* number of instances when Ok.
FetchServerlist(serverlist) ==
    /\ mpc = "serverlist"
    /\ mpc' = IF is_err(serverlist) \/ serverlist.val < MinServers THEN "exit_err"
              ELSE IF argv = <<>> THEN "exit_ok"
              ELSE "collect"
    /\ UNCHANGED <<argv, collected, books, checked, stdout, notMainVars>>

\* main, lines 81-88, one file of the collection: get_books on it.  A file
\* whose Book::new fails is skipped with a warning; a panic of Book::new
\* ends the process; an I/O error ends main with "failed to collect paths".
GetBooks ==
    /\ mpc = "collect"
    /\ LET i == collected + 1
           f == argv[i]
           b == IF f.kind = "file" THEN Book_new(f.filename, f.lookup)
                ELSE [ret |-> Err("cannot access entry")]
           last(bs) == IF i < Len(argv) THEN "collect"
                       ELSE IF bs = <<>> THEN "exit_ok" ELSE "check"
       IN  IF f.kind # "file"
           THEN mpc' = "exit_err" /\ UNCHANGED <<collected, books, stdout>>
           ELSE IF b.ret.tag = "Panic"
           THEN mpc' = "panicked" /\ UNCHANGED <<collected, books, stdout>>
           ELSE IF b.ret.tag = "Ok"
           THEN /\ books' = Append(books, [file |-> i, book |-> b.ret.val])
                /\ collected' = i
                /\ mpc' = last(books')
                /\ UNCHANGED stdout
           ELSE /\ stdout' = Append(stdout, Line("WARN", i, "skip"))
                /\ collected' = i
                /\ mpc' = last(books)
                /\ UNCHANGED books
    /\ UNCHANGED <<argv, checked, notMainVars>>

\* main, lines 91-116, one turn of the loop: `result` is what book.check
\* returned.
MainCheckBook(result) ==
    /\ mpc = "check"
    /\ LET k == checked + 1
           i == books[k].file
       IN  IF result.tag = "Panic"
           THEN mpc' = "panicked" /\ UNCHANGED <<checked, stdout>>
           ELSE /\ checked' = k
                /\ mpc' = IF k = Len(books) THEN "exit_ok" ELSE "check"
                /\ stdout' =
                      IF is_err(result)
                      THEN Append(stdout, Line("ERROR", i, "failed to check"))
                      ELSE IF result.val = <<>>
                      THEN Append(stdout, Line("OK", i, ""))
                      ELSE Append(stdout, Line("ERROR", i, result.val))
    /\ UNCHANGED <<argv, collected, books, notMainVars>>

NextMain ==
    \/ \E serverlist \in {Err("failed to fetch Searx serverlist"),
                            Ok(MinServers - 1), Ok(MinServers)} :
           FetchServerlist(serverlist)
    \/ GetBooks
    \/ \E result \in CheckResults : MainCheckBook(result)

SpecMain == InitMain /\ [][NextMain]_vars

----------------------------------------------------------------------------
(* The client's runs: find_book and fetch_info calls on one Client *)

Init == InitClient /\ PureIdle /\ BookIdle /\ MainIdle

Spec == Init /\ [][NextClient]_vars

----------------------------------------------------------------------------
(* Claims about find_book (checked under Spec) *)

IsGet(e) == e.ev = "GET"
IsHomeGet(e) == e.ev = "GET" /\ e.url = MAIN_URL
IsSearchGet(e) == e.ev = "GET" /\ e.url.base = SEARCH_URL("", <<>>).base

\* The requests of the current call, in order.
Requests == SelectSeq(net, IsGet)

\* C1: a find_book(title, volume) call whose key is in the cache when the
\* call starts returns the cached URL, having fetched nothing and with the
\* cache as it was.
C1_CacheHitReturnsCached ==
    (pc = "done" /\ <<title, volume>> \in DOMAIN cache0)
        => /\ res = Ok(cache0[<<title, volume>>])
           /\ net = <<>>
           /\ cache = cache0

\* C1 witness: a call returned on a hit of an entry an earlier call cached.
C1_Witness ==
    /\ pc = "done"
    /\ ncalls = 2
    /\ <<title, volume>> \in DOMAIN cache0
    /\ res.tag = "Ok"

\* The search whose record is s ran to its end: its page was fetched and
\* every candidate on it was read.
Completed(s) == s.ret.tag = "Ok" \/ s.ret.val = NotFound

\* The candidates the current call observed, over all its searches.
Candidates ==
    UNION {{searches[j].nodes[i] : i \in 1..Len(searches[j].nodes)} :
              j \in 1..Len(searches)}

\* C2 (as claimed): once a find_book(title, volume) call whose searches
\* completed has returned, every candidate link the call observed is in the
\* cache under (title as passed to find_book, the candidate's own volume),
\* mapped to the candidate's URL.  Stated for the calls whose candidates
\* carry pairwise different volumes, where the N links can make N keys.
C2_EveryCandidateCachedUnderCallTitle ==
    (/\ pc = "done"
     /\ searches # <<>>
     /\ \A j \in 1..Len(searches) : Completed(searches[j])
     /\ \A m, n \in Candidates :
            get_book_number(m).val = get_book_number(n).val => m = n)
        => \A n \in Candidates :
              /\ <<title, get_book_number(n).val>> \in DOMAIN cache
              /\ cache[<<title, get_book_number(n).val>>] = n.href[1]

\* C5 (as claimed): the second search is issued only when the first found no
\* match, at most once, with the title less its "- " sequences and with the
\* token of the one home page fetch; a transport failure ends the call.
C5_RetryOnlyOnNoMatch ==
    pc = "done" =>
        /\ Len(SelectSeq(net, IsHomeGet)) <= 1
        /\ Len(SelectSeq(net, IsSearchGet)) <= 2
        /\ Len(searches) <= 2
        /\ Len(searches) = 2 =>
              /\ searches[1].ret = Err(NotFound)
              /\ Requests[3].url.query[2][2]
                    = to_lowercase(replace(title, <<"-", " ">>, <<>>))
              /\ Requests[3].url.query[1][2] = home.val.csrf[1][1]
              /\ Requests[2].url.query[1][2] = home.val.csrf[1][1]
        /\ \A j \in 1..Len(searches) :
              is_err(searches[j].resp) => j = Len(searches)

\* C5 (amended): the second search is issued only when the first returned an
\* error (no match, a transport failure, a malformed link) and the title has
\* a hyphen, at most once, with the title less its "- " sequences and with
\* the token of the one home page fetch; a call makes at most one home page
\* fetch and two search requests and nothing else; a failed home page fetch
\* or second search is followed by no request.
C5_RetryOnErrorWithHyphen ==
    pc = "done" =>
        /\ Len(SelectSeq(net, IsHomeGet)) <= 1
        /\ Len(SelectSeq(net, IsSearchGet)) <= 2
        /\ Len(SelectSeq(net, IsSearchGet)) = Len(searches)
        /\ Len(Requests) = Len(SelectSeq(net, IsHomeGet)) + Len(searches)
        /\ Len(searches) = 2 =>
              /\ is_err(searches[1].ret)
              /\ contains(title, "-")
              /\ Requests[3].url.query[2][2]
                    = to_lowercase(replace(title, <<"-", " ">>, <<>>))
              /\ Requests[3].url.query[1][2] = home.val.csrf[1][1]
              /\ Requests[2].url.query[1][2] = home.val.csrf[1][1]
        /\ (home # NoRes /\ is_err(home)) => Len(Requests) = 1
        /\ (Len(searches) = 2 /\ is_err(searches[2].resp)) => Len(Requests) = 3

\* C5 witness: a call returned after its second search, the first having
\* failed in transport.
C5_Witness ==
    /\ pc = "done"
    /\ Len(searches) = 2
    /\ is_err(searches[1].resp)
    /\ res.tag = "Ok"

\* The home page the current call fetched has no token to give.
TokenAbsent ==
    /\ home.tag = "Ok"
    /\ \/ home.val.csrf = None
       \/ home.val.csrf[1] = None

\* C6: when the home page has no CSRF token (no `#csrf` element, or no
\* `value` on it), find_book returns an error, having sent no search request
\* and with the cache as it was.
C6_NoTokenNoSearch ==
    (pc # "idle" /\ TokenAbsent)
        => /\ pc = "done"
           /\ is_err(res)
           /\ searches = <<>>
           /\ SelectSeq(net, IsSearchGet) = <<>>
           /\ Len(Requests) = 1
           /\ cache = cache0

\* C6 witness: a call returned on a home page whose `#csrf` has no value,
\* with entries of an earlier call in the cache.
C6_Witness ==
    /\ pc = "done"
    /\ home.tag = "Ok"
    /\ home.val.csrf = Some(None)
    /\ cache0 # <<>>

\* C7: every request get_html sends comes right after a sleep of the fixed
\* delay: the home page, the searches (the second too) and the book's page.
C7_DelayBeforeEveryRequest ==
    \A i \in 1..Len(net) :
        net[i].ev = "GET"
            => /\ i > 1
               /\ net[i - 1].ev = "sleep"
               /\ net[i - 1].secs = InterRequestDelay

\* C7 witness: a call that made three requests, the second search included.
C7_Witness ==
    /\ Len(Requests) = 3
    /\ Len(searches) = 2

----------------------------------------------------------------------------
(* Claims about get_link and is_right_series (checked under SpecPure) *)

\* The places on `page` of the links of the tier get_link uses for `t`: the
\* exact matches if there is one, the prefix matches if not.
TierOf(page, t) ==
    LET exact == {i \in 1..Len(page) : is_right_series(page[i], t, TRUE)}
    IN  IF exact # {} THEN exact
        ELSE {i \in 1..Len(page) : is_right_series(page[i], t, FALSE)}

\* The link's extracted volume number is v (None for a link without number).
HasVolume(n, v) == get_book_number(n).tag = "Ok" /\ get_book_number(n).val = v

\* The link has an href that is a URL and a volume badge that reads.
WellFormed(n) ==
    /\ n.href # None
    /\ n.href[1] \in BookUrls
    /\ get_book_number(n).tag = "Ok"

\* What C3 says of a get_link call on a fetched page, with or without the
\* proviso that the links of the tier are well formed.
TierAndVolume(proviso) ==
    (fn = "get_link" /\ out.tag = "Ret" /\ arg.resp.tag = "Ok") =>
        LET page == arg.resp.val
            tier == TierOf(page, arg.title)
            hits == {i \in tier : HasVolume(page[i], arg.volume)}
            ret == out.val.ret
            sound == \A i \in tier : WellFormed(page[i])
        IN  /\ \A k \in DOMAIN out.val.cache :
                  \E i \in tier : k = <<arg.title, get_book_number(page[i]).val>>
            /\ ret.tag = "Ok" => \E i \in hits : page[i].href = Some(ret.val)
            /\ (~proviso \/ sound) =>
                  /\ hits # {} => ret.tag = "Ok"
                  /\ hits = {} => ret = Err(NotFound)
            /\ (proviso /\ ~sound) => (ret.tag = "Err" /\ ret.val # NotFound)

IsPunctuation(c) == c = "!"
NotPunctuation(c) == ~IsPunctuation(c)

\* Lowercased, and with the punctuation removed.
Folded(s) == SelectSeq(to_lowercase(s), NotPunctuation)

\* C4 (as claimed): a title and a series text that are equal once both are
\* lowercased and stripped of punctuation match exactly.  Stated for titles
\* and texts without whitespace, which is not punctuation.
C4_ExactIgnoresCaseAndPunctuation ==
    (/\ fn = "is_right_series"
     /\ out.tag = "Ret"
     /\ arg.serie # None
     /\ ~contains(arg.title, " ")
     /\ ~contains(arg.serie[1], " ")
     /\ Folded(arg.title) = Folded(arg.serie[1]))
        => out.exact

\* s from its first to its last character that is not a space.
Inner(s) ==
    LET I == {i \in 1..Len(s) : s[i] # " "}
    IN  IF I = {} THEN <<>>
        ELSE SubSeq(s, CHOOSE i \in I : \A j \in I : i <= j,
                       CHOOSE i \in I : \A j \in I : j <= i)

SameUpToCase(a, b) ==
    /\ Len(a) = Len(b)
    /\ \A i \in 1..Len(a) : LowerChar(a[i]) = LowerChar(b[i])

\* C4 (amended): the exact match ignores case, and in the series text of the
\* result (not in the requested title) the "!" characters and the leading
\* and trailing whitespace: is_right_series with exact_match = true accepts
\* exactly when the title and the text so stripped are equal up to case.
C4_ExactIgnoresCaseAndBangInText ==
    (fn = "is_right_series" /\ out.tag = "Ret") =>
        (out.exact <=>
            /\ arg.serie # None
            /\ SameUpToCase(arg.title, Inner(SelectSeq(arg.serie[1], NotPunctuation))))

\* C4 witness: accepted, with a "!" and a capital in the text.
C4_Witness ==
    /\ fn = "is_right_series"
    /\ out.tag = "Ret"
    /\ out.exact
    /\ arg.serie # None
    /\ contains(arg.serie[1], "!")
    /\ contains(arg.serie[1], "A")
    /\ arg.title # <<>>

----------------------------------------------------------------------------
(* Claims about the checks of one image (checked under SpecPure) *)

\* C8 (as claimed): for every declared width W and image width w, the width
\* check passes exactly when w = W or 1.9 W <= w <= 2.1 W, and computing the
\* band overflows for no W.
C8_WidthBandNoOverflow ==
    (fn = "check_width" /\ out.tag = "Ret") =>
        /\ out.val # "panic"
        /\ out.val = "pass" <=>
              \/ arg.w = arg.W
              \/ 19 * arg.W <= 10 * arg.w /\ 10 * arg.w <= 21 * arg.W

\* C9: check_date accepts a date exactly when its year, month and day are
\* those of 2000-01-01, whatever its time of day.
C9_DateIgnoresTime ==
    (fn = "check_date" /\ out.tag = "Ret") =>
        (out.val <=> (arg.year = 2000 /\ arg.month = 1 /\ arg.day = 1))

\* C9 witness: a date on the sentinel day at another time, accepted.
C9_Witness ==
    /\ fn = "check_date"
    /\ out.tag = "Ret"
    /\ out.val
    /\ arg.hour = 23
    /\ arg.second = 58

----------------------------------------------------------------------------
(* Claims about Book::check (checked under SpecBook) *)

ArchiveKinds == {"Date", "Width", "Exif"}

\* The operations done to entry k, in order.
OpsOn(k) ==
    LET OnK(x) == x[1] = k
        ops == SelectSeq(inspected, OnK)
    IN  [j \in 1..Len(ops) |-> ops[j][2]]

IsByIndex(x) == x[2] = "by_index"

OnSentinelDay(d) == d.year = 2000 /\ d.month = 1 /\ d.day = 1

\* The band of a declared width W that does not overflow usize.
InBand(W, w) == w = W \/ (19 * W <= 10 * w /\ 10 * w <= 21 * W)

\* C10: check reads the entries in index order; a Date, Width or Exif
\* finding ends the check at the entry that raised it, so that the entries
\* read before it raised none and none is read after it; an entry with a
\* wrong date is neither read nor checked for width or EXIF; a directory is
\* skipped and the scan goes on.
C10_FailFastInIndexOrder ==
    /\ LET reads == SelectSeq(inspected, IsByIndex)
       IN  /\ Len(reads) = Len(entries)
           /\ \A j \in 1..Len(reads) : reads[j][1] = j - 1
    /\ \A j \in 1..Len(inspected) - 1 : inspected[j][1] <= inspected[j + 1][1]
    /\ \A j \in 1..Len(errors) :
          errors[j].kind \in ArchiveKinds
              => /\ j = Len(errors)
                 /\ bpc = "done"
                 /\ bres = Ok(errors)
                 /\ entries[Len(entries)].is_file
    /\ \A k \in 1..Len(entries) - 1 :
          LET e == entries[k]
          IN  /\ e.index_ok
              /\ e.is_file =>
                    /\ OnSentinelDay(e.last_modified)
                    /\ e.read_ok
                    /\ e.width # None
                    /\ e.exif = "NotFound"
                    /\ 21 * book.width <= 10 * UsizeMax
                          => InBand(book.width, e.width[1])
                    /\ OpsOn(k - 1) = <<"by_index", "is_file", "last_modified",
                                        "read", "blob_size", "exif">>
    /\ \A k \in 1..Len(entries) :
          LET e == entries[k]
          IN  /\ (e.index_ok /\ e.is_file /\ ~OnSentinelDay(e.last_modified))
                    => /\ OpsOn(k - 1) = <<"by_index", "is_file", "last_modified">>
                       /\ k = Len(entries)
                       /\ bpc = "done"
                       /\ errors[Len(errors)] = Date
              /\ (e.index_ok /\ ~e.is_file)
                    => /\ OpsOn(k - 1) = <<"by_index", "is_file">>
                       /\ (k = Len(entries) /\ k < cbz_len) => bpc = "entries"
                       /\ (k = Len(entries) /\ k = cbz_len) => bres = Ok(errors)

\* C10 witness: a directory, then a file with a wrong date that ends the
\* check, in an archive that has a third entry.
C10_Witness ==
    /\ bpc = "done"
    /\ cbz_len = 3
    /\ Len(entries) = 2
    /\ entries[1] = DirEntry
    /\ entries[2].index_ok
    /\ entries[2].is_file
    /\ entries[2].width = Some(22)
    /\ entries[2].exif = "Found"
    /\ errors # <<>>
    /\ errors[Len(errors)] = Date

----------------------------------------------------------------------------
(* Claims about the book's metadata (checked under SpecFile) *)

\* The spelling of one character with case and diacritic folded: a long
\* vowel written with a macron or a circumflex is its two-letter spelling.
CharFold(c) ==
    CASE LowerChar(c) \in {"a_macron", "a_circ"} -> <<"a", "a">>
      [] LowerChar(c) \in {"u_macron", "u_circ"} -> <<"u", "u">>
      [] LowerChar(c) \in {"e_macron", "e_circ"} -> <<"e", "e">>
      [] LowerChar(c) \in {"o_macron", "o_circ"} -> <<"o", "u">>
      [] OTHER -> <<LowerChar(c)>>

RECURSIVE Romanized(_)
Romanized(s) == IF s = <<>> THEN <<>> ELSE CharFold(s[1]) \o Romanized(Tail(s))

\* Two names differ only by case or by the spelling of their long vowels.
SameRomanization(a, b) == Romanized(a) = Romanized(b)

\* C11: check_book_metadata adds Authors(the catalog's authors) exactly when
\* the normalized catalog authors differ from the normalized book authors,
\* hence not for names that differ only by case or by the spelling of a long
\* vowel; it adds Year(the catalog's years) exactly when the book's year is
\* not among them; each finding is raised whatever the other, Authors first.
C11_AuthorsAndYearIndependent ==
    (fn = "check_book_metadata" /\ out.tag = "Ret" /\ ~is_err(arg.resp)) =>
        LET info == arg.resp.val
            errs == out.val.errs
            authorsDiffer == cbz_normalize(info.authors) # cbz_normalize(arg.authors)
            yearMissing == arg.year \notin info.years
            expected == (IF authorsDiffer THEN <<Authors(info.authors)>> ELSE <<>>)
                        \o (IF yearMissing THEN <<Year(info.years)>> ELSE <<>>)
        IN  /\ out.val.ret = Ok("()")
            /\ errs = expected
            /\ SameRomanization(info.authors, arg.authors) => ~authorsDiffer
            /\ replace(Romanized(info.authors), <<"o", "o">>, <<"o", "u">>)
                   = replace(Romanized(arg.authors), <<"o", "o">>, <<"o", "u">>)
                 <=> ~authorsDiffer

\* Both findings raised for one book, whose authors differ from the
\* catalog's by more than case and romanization.
C11_Witness ==
    /\ fn = "check_book_metadata"
    /\ out.tag = "Ret"
    /\ ~is_err(arg.resp)
    /\ Len(out.val.errs) = 2
    /\ arg.authors = <<"A", "o">>
    /\ arg.resp.val.authors = <<"a", "u">>

----------------------------------------------------------------------------
(* Claims about the findings Book::check returns (checked under SpecBook) *)

\* The catalog's record agrees with the book's name.
MetadataPass ==
    /\ vinfo # None
    /\ cbz_normalize(vinfo[1].authors) = cbz_normalize(book.authors)
    /\ book.year \in vinfo[1].years

\* Entry e can be read as an image, with or without an EXIF block.
Decodable(e) ==
    e.index_ok /\ (e.is_file => e.read_ok /\ e.width # None /\ e.exif # "Error")

\* Entry e, if a file, has the sentinel date, a width equal to the declared
\* one or inside the dual-page band, and no EXIF block.
EntryPass(e) ==
    (e.index_ok /\ e.is_file) =>
        /\ OnSentinelDay(e.last_modified)
        /\ e.width # None
        /\ InBand(book.width, e.width[1])
        /\ e.exif = "NotFound"

\* The whole archive was looked at, or the scan stopped at the last entry given.
ArchivePass == \A k \in 1..Len(entries) : EntryPass(entries[k])

\* C12 (as claimed): a check of an archive whose catalog record could be
\* fetched and whose entries can all be decoded returns the empty list when
\* the authors agree after normalization, the year is among the catalog's
\* and every file entry has the sentinel date, a width equal to the declared
\* one or inside the band and no EXIF block; and a check that returns a list
\* returns a non-empty one when one of these fails for the book or for the
\* entry the scan stopped at.
C12_EmptyListIffAllPass ==
    /\ (/\ bpc \in {"done", "panicked"}
        /\ MetadataPass
        /\ Len(entries) = cbz_len
        /\ \A k \in 1..Len(entries) : Decodable(entries[k])
        /\ ArchivePass)
           => (bpc = "done" /\ bres = Ok(<<>>))
    /\ (bpc = "done" /\ bres.tag = "Ok")
           => (bres.val = <<>> <=> (MetadataPass /\ ArchivePass))

\* The same for the declared widths whose band fits usize.
C12_EmptyListIffAllPassBandFits ==
    2 * book.width + book.width \div 10 <= UsizeMax => C12_EmptyListIffAllPass

----------------------------------------------------------------------------
(* Claims about the catalog page's credits (checked under SpecFile) *)

\* The names the page credits under `label`, trimmed.
Credited(page, label) ==
    {trim(AUTHOR_REGEX(page[i])[1].name) :
        i \in {j \in 1..Len(page) : /\ page[j].label = label
                                     /\ AUTHOR_REGEX(page[j]) # None}}

\* Line i credits `name` under `label`.
Credits(page, i, label, name) ==
    /\ page[i].label = label
    /\ AUTHOR_REGEX(page[i]) # None
    /\ trim(AUTHOR_REGEX(page[i])[1].name) = name

\* The artist credits of a writer all come after a writer credit of theirs.
WritersFirst(page) ==
    \A i \in 1..Len(page) : \A n \in Credited(page, "Scenario") :
        Credits(page, i, "Dessin", n)
            => \E j \in 1..(i - 1) : Credits(page, j, "Scenario", n)

\* The artists credited before any writer credit of theirs (or never as
\* writers).
ArtistsNotYetWriters(page) ==
    {n \in Credited(page, "Dessin") :
        \E i \in 1..Len(page) :
            /\ Credits(page, i, "Dessin", n)
            /\ \A j \in 1..(i - 1) : ~Credits(page, j, "Scenario", n)}

\* C13 (as claimed): whatever the order of the credit lines, authors is the
\* sorted distinct writers, then the sorted distinct artists that are not
\* writers, joined by hyphens.
C13_WritersThenOtherArtists ==
    (fn = "VolumeInfo::new" /\ out.tag = "Ret") =>
        out.val.authors =
            join(from_iter(Credited(arg, "Scenario"))
                 \o from_iter(Credited(arg, "Dessin") \ Credited(arg, "Scenario")),
                 <<"-">>)

\* C13 (amended): authors is the sorted distinct writers, then the sorted
\* distinct artists that had not been credited as writers when their artist
\* line was read, joined by hyphens.  When every artist credit of a writer
\* follows a writer credit of theirs these are the artists that are not
\* writers; otherwise a name credited as artist first and as writer later
\* appears twice, among the writers and among the artists.
C13_WritersThenArtistsNotYetWriters ==
    (fn = "VolumeInfo::new" /\ out.tag = "Ret") =>
        /\ out.val.authors =
              join(from_iter(Credited(arg, "Scenario"))
                   \o from_iter(ArtistsNotYetWriters(arg)), <<"-">>)
        /\ WritersFirst(arg) =>
              ArtistsNotYetWriters(arg)
                  = Credited(arg, "Dessin") \ Credited(arg, "Scenario")
        /\ ~WritersFirst(arg) =>
              \E n \in Credited(arg, "Scenario") : n \in ArtistsNotYetWriters(arg)

\* Writers B and A, then A again as artist: A appears once, as a writer.
C13_Witness ==
    /\ fn = "VolumeInfo::new"
    /\ out.tag = "Ret"
    /\ arg = <<InfoLine("Scenario", <<" ", "B">>), InfoLine("Scenario", <<" ", "A">>),
               InfoLine("Dessin", <<" ", " ", "A", " ">>)>>
    /\ out.val.authors = <<"A", "-", "B">>

----------------------------------------------------------------------------
(* Claims about the file name (checked under SpecFile) *)

\* The parts are of the types the name is written from: a title and authors
\* that are not empty, a volume that is a u8, a width that is a usize, and
\* the extension of a CBZ.
Typed(p) ==
    /\ p.ext = <<".", "c", "b", "z">>
    /\ p.title # <<>>
    /\ p.authors # <<>>
    /\ p.volume # None => ~is_err(parse_u8(p.volume[1]))
    /\ ~is_err(parse_usize(p.width))

\* Book::new on the name written from parts p, with what it got, gave back
\* the parts: find_book was asked for the title and the volume, and the Book
\* (when find_book found one) has the authors, the year and the width.
Recovers(p, got) ==
    /\ got.ret.tag # "Panic"
    /\ got.query.called
    /\ got.query.title = p.title
    /\ got.query.volume = (IF p.volume = None THEN None
                           ELSE Some(DecimalValue(p.volume[1])))
    /\ got.ret.tag = "Ok" =>
          /\ got.ret.val.authors = p.authors
          /\ got.ret.val.year = DecimalValue(p.year)
          /\ got.ret.val.width = DecimalValue(p.width)

\* t holds a volume segment followed by an opening parenthesis,
\* " T<digits> (", from position `from` on.
HasVolumeMark(t, from) ==
    \E k \in from..Len(t) :
        /\ at(t, k, <<" ", "T">>)
        /\ run_end(t, k + 2, Digits) >= k + 2
        /\ at(t, run_end(t, k + 2, Digits) + 1, <<" ", "(">>)

HasOpening(t) == \E k \in 1..Len(t) : at(t, k, <<" ", "(">>)

\* The name written from p reads in one way only.
Unambiguous(p) ==
    IF p.volume # None THEN ~HasVolumeMark(p.authors, 1)
    ELSE /\ ~HasOpening(p.authors)
         /\ ~HasVolumeMark(p.title \o <<" ", "(">>, 2)

\* C14 (as claimed): for every title, volume, authors, year and width,
\* Book::new on the name written from them recovers them, the volume being
\* absent when the name has no " T<volume>" segment.
C14_NameRoundTrip ==
    (fn = "Book::new" /\ out.tag = "Ret" /\ Typed(arg.parts))
        => Recovers(arg.parts, out.val)

\* C14 (amended): the parts are recovered when the name reads in one way
\* only: with a volume, when the authors hold no " T<digits> ("; without,
\* when the authors hold no " (" and the title neither ends with
\* " T<digits>" nor holds " T<digits> (" after its first character.
C14_NameRoundTripUnambiguous ==
    (fn = "Book::new" /\ out.tag = "Ret" /\ Typed(arg.parts) /\ Unambiguous(arg.parts))
        => Recovers(arg.parts, out.val)

\* A series name whose title itself ends like a volume segment:
\* "A T1 T25 (A-B) ...", read as title "A T1", volume 25.
C14_Witness ==
    /\ fn = "Book::new"
    /\ out.tag = "Ret"
    /\ arg.parts.title = <<"A", " ", "T", "1">>
    /\ arg.parts.volume = Some(<<"2", "5">>)
    /\ arg.parts.authors = <<"A", "-", "B">>
    /\ out.val.ret.tag = "Ok"
    /\ out.val.query.title = <<"A", " ", "T", "1">>
    /\ out.val.query.volume = Some(25)
    /\ out.val.ret.val.authors = <<"A", "-", "B">>

----------------------------------------------------------------------------
(* Claims about a run over several files (checked under SpecMain) *)

\* The lines about file i of the run.
LinesAbout(i) ==
    LET About(l) == l.file = i
    IN  SelectSeq(stdout, About)

\* The run has ended, normally or not.
Ended == mpc \in {"exit_ok", "exit_err", "panicked"}

\* The file the run stopped at when it panicked.
PanickedAt ==
    IF mpc # "panicked" THEN 0
    ELSE IF collected < Len(argv) THEN collected + 1
    ELSE books[checked + 1].file

\* File i is one whose name has a number that does not fit its type.
NumberDoesNotFit(i) ==
    /\ argv[i].kind = "file"
    /\ Book_new(argv[i].filename, argv[i].lookup).ret.tag = "Panic"

\* The run went past the list of instances and met no I/O error while
\* collecting the files.
Started == mpc \notin {"serverlist", "exit_err"}

\* C15 (as claimed): a failure that concerns one file, a number of its name
\* that does not fit its type included, ends no run and is reported for that
\* file alone: a run never stops at a file whose number does not fit, and
\* when every failure of the run is of the kinds listed, the run ends
\* normally with one report about each of its files.
C15_FileFailureNeverEndsRun ==
    /\ mpc = "panicked" => ~NumberDoesNotFit(PanickedAt)
    /\ (Ended /\ Started /\ (mpc = "panicked" => NumberDoesNotFit(PanickedAt)))
           => /\ mpc = "exit_ok"
              /\ \A i \in 1..Len(argv) : Len(LinesAbout(i)) = 1

\* The same for the runs none of whose names has a number that does not fit
\* and none of whose checks panics.
C15_OtherFailuresNeverEndRun ==
    (Ended /\ Started /\ mpc # "panicked")
        => /\ mpc = "exit_ok"
           /\ \A i \in 1..Len(argv) : Len(LinesAbout(i)) = 1

----------------------------------------------------------------------------
(* Claims about the shape of the findings (checked under SpecBook) *)

\* The place of a finding in [Authors, Year, X], X of the archive's kinds.
Rank(e) ==
    CASE e.kind = "Authors" -> 1
      [] e.kind = "Year" -> 2
      [] e.kind \in ArchiveKinds -> 3
      [] OTHER -> 0

\* C16: the list a successful check returns is a subsequence of
\* [Authors, Year, X] with X one of Date, Width, Exif: every finding is of
\* these kinds and the places of successive findings strictly increase, so
\* that each kind occurs at most once, at most one finding of the archive
\* is present, it is last, and the list has at most three findings.
C16_FindingsShape ==
    (bpc = "done" /\ bres.tag = "Ok") =>
        /\ Len(bres.val) <= 3
        /\ \A j \in 1..Len(bres.val) : Rank(bres.val[j]) \in 1..3
        /\ \A j \in 1..Len(bres.val) - 1 : Rank(bres.val[j]) < Rank(bres.val[j + 1])
        /\ Cardinality({j \in 1..Len(bres.val) : bres.val[j].kind \in ArchiveKinds}) <= 1

\* A check that returns the three findings Authors, Year and Width, the last
\* raised by the second entry of the archive after a first one that passed.
C16_Witness ==
    /\ bpc = "done"
    /\ bres.tag = "Ok"
    /\ Len(bres.val) = 3
    /\ bres.val[1].kind = "Authors"
    /\ bres.val[2].kind = "Year"
    /\ bres.val[3].kind = "Width"
    /\ Len(entries) = 2
    /\ cbz_len = 3

============================================================================
